---- MODULE Spec2Model ----
(***************************************************************************)
(* Verification model of the schema-validated batch ingestion pipeline     *)
(* (src/data/validator.py), of the backup/restore serializer               *)
(* (src/data/backup.py), of the API handlers (src/api/main.py) and of the  *)
(* bulk import (src/data/migration.py).                                    *)
(*                                                                         *)
(* Values.  A cell value is a record [kind, s]: kind is "null" (None, NaN),*)
(* "int", "float" or "str"; s is the text of the value as a sequence of    *)
(* tokens (pieces of the string), so that str.strip, str.replace and       *)
(* datetime.fromisoformat act on the structure of the string.              *)
(***************************************************************************)
EXTENDS Integers, Sequences, FiniteSets, TLC

(***************************************************************************)
(* Bounds of the model.                                                    *)
(***************************************************************************)
MaxBatch == 3
MaxClock == 1

(***************************************************************************)
(* Cell values and strings.                                                *)
(***************************************************************************)
Null == [kind |-> "null", s |-> <<>>]
IntV(t) == [kind |-> "int", s |-> <<t>>]
FloatV(t) == [kind |-> "float", s |-> <<t>>]
StrV(toks) == [kind |-> "str", s |-> toks]

\* pd.isna(value)
isna(value) == value.kind = "null"

\* isinstance(value, str)
isstr(value) == value.kind = "str"

\* row.get(col): the value of the column, None when the record has no such key
RowGet(r, col) == IF col \in DOMAIN r THEN r[col] ELSE Null

RECURSIVE lstrip(_)
lstrip(toks) ==
    IF toks # <<>> /\ Head(toks) = " " THEN lstrip(Tail(toks)) ELSE toks

RECURSIVE rstrip(_)
rstrip(toks) ==
    IF toks # <<>> /\ toks[Len(toks)] = " "
    THEN rstrip(SubSeq(toks, 1, Len(toks) - 1))
    ELSE toks

\* str.strip(): leading and trailing whitespace removed
strip(toks) == rstrip(lstrip(toks))

\* value.replace("Z", "+00:00"): every occurrence of Z is replaced
replace_Z(toks) ==
    [i \in 1..Len(toks) |-> IF toks[i] = "Z" THEN "+00:00" ELSE toks[i]]

(***************************************************************************)
(* datetime.fromisoformat, on strings made of the tokens                   *)
(*   "2021-07-15"  a date            "T", " ", "Z"  single characters       *)
(*   "10:00"       HH:MM             ":30"          :SS                     *)
(*   "+00:00"      a UTC offset      "not-a-date"   anything else           *)
(* The accepted format is YYYY-MM-DD[*HH:MM[:SS][+HH:MM[:SS]]], where * is *)
(* any single character; in "2021-07-15+00:00" the "+" is that character   *)
(* and "00:00" the time.  A "Z" suffix is not part of the format, which is *)
(* why the code replaces it before parsing.  TRUE when the string parses,  *)
(* FALSE when fromisoformat raises ValueError.                             *)
(***************************************************************************)
SingleChar == {"T", " ", "Z"}

\* what may follow HH:MM: [:SS][+HH:MM[:SS]]
IsoTimeRest(toks) ==
    toks \in { <<>>, <<":30">>, <<"+00:00">>, <<":30", "+00:00">>,
               <<"+00:00", ":30">>, <<":30", "+00:00", ":30">> }

fromisoformat(toks) ==
    /\ Len(toks) >= 1
    /\ toks[1] = "2021-07-15"
    /\ \/ Len(toks) = 1
       \/ /\ Len(toks) >= 3
          /\ toks[2] \in SingleChar
          /\ toks[3] = "10:00"
          /\ IsoTimeRest(SubSeq(toks, 4, Len(toks)))
       \/ /\ Len(toks) >= 2
          /\ toks[2] = "+00:00"
          /\ IsoTimeRest(SubSeq(toks, 3, Len(toks)))

(***************************************************************************)
(* Row Validator: validate_row.                                            *)
(***************************************************************************)
MissingOrEmpty(col) == [kind |-> "MissingOrEmpty", column |-> col]
InvalidTimestamp == [kind |-> "InvalidTimestamp", column |-> "datetime"]

\* a variant of the test below that does not strip the string
IsEmptyOrNullNoStrip(value) == isna(value) \/ (isstr(value) /\ value.s = <<>>)

\* the first test of the loop body (validator.py line 21)
IsEmptyOrNull(value) == isna(value) \/ (isstr(value) /\ strip(value.s) = <<>>)

\* the second test of the loop body (validator.py lines 23-27)
IsBadDatetime(col, value) ==
    /\ col = "datetime"
    /\ ~isna(value)
    /\ isstr(value)
    /\ ~fromisoformat(replace_Z(value.s))

\* the errors one column adds, in the order the code appends them
ColumnErrors(r, col) ==
    LET value == RowGet(r, col)
    IN  (IF IsEmptyOrNull(value) THEN <<MissingOrEmpty(col)>> ELSE <<>>)
        \o (IF IsBadDatetime(col, value) THEN <<InvalidTimestamp>> ELSE <<>>)

RECURSIVE validate_row(_, _)
validate_row(r, expected_columns) ==
    IF expected_columns = <<>> THEN <<>>
    ELSE ColumnErrors(r, Head(expected_columns))
         \o validate_row(r, Tail(expected_columns))


(***************************************************************************)
(* Batch Validator: the loop of validate_dataframe.  A DataFrame is the    *)
(* sequence of its rows; the frames of this repository carry a RangeIndex, *)
(* so the index label of the i-th row is i - 1.                            *)
(***************************************************************************)
\* one entry of error_log (validator.py lines 46-51)
QuarantineEntry(table_name, idx, r, row_errors) ==
    [table |-> table_name, row_index |-> idx, data |-> r, errors |-> row_errors]

\* a variant of the loop below without the else: every index is kept as valid
RECURSIVE ScanRowsNoElse(_, _, _, _)
ScanRowsNoElse(df, expected_columns, table_name, i) ==
    IF i > Len(df) THEN [error_log |-> <<>>, valid_indices |-> <<>>]
    ELSE LET rest == ScanRowsNoElse(df, expected_columns, table_name, i + 1)
             row_errors == validate_row(df[i], expected_columns)
         IN  [error_log |->
                 (IF row_errors # <<>>
                  THEN <<[table |-> table_name, row_index |-> i - 1,
                          data |-> df[i], errors |-> row_errors]>>
                  ELSE <<>>) \o rest.error_log,
              valid_indices |-> <<i - 1>> \o rest.valid_indices]

RECURSIVE ScanRows(_, _, _, _)
ScanRows(df, expected_columns, table_name, i) ==
    IF i > Len(df) THEN [error_log |-> <<>>, valid_indices |-> <<>>]
    ELSE LET rest == ScanRows(df, expected_columns, table_name, i + 1)
             row_errors == validate_row(df[i], expected_columns)
         IN  IF row_errors # <<>>
             THEN [error_log |->
                     <<QuarantineEntry(table_name, i - 1, df[i], row_errors)>>
                     \o rest.error_log,
                   valid_indices |-> rest.valid_indices]
             ELSE [error_log |-> rest.error_log,
                   valid_indices |-> <<i - 1>> \o rest.valid_indices]

\* df.loc[valid_indices] with the rows in reverse order
LocReversed(df, indices) ==
    [k \in 1..Len(indices) |-> df[indices[Len(indices) + 1 - k] + 1]]

\* df.loc[valid_indices]: the rows with these index labels, in this order
Loc(df, indices) == [k \in 1..Len(indices) |-> df[indices[k] + 1]]

\* the name of the quarantine log file (validator.py lines 59-60)
LogFileName(process_type, table_name, timestamp) ==
    [process_type |-> process_type, table |-> table_name, timestamp |-> timestamp]

(***************************************************************************)
(* The relational store.  A table is [exists, types, rows]: types maps     *)
(* each column to its SQL type, rows is the committed contents.  pandas    *)
(* infers a column's dtype from its values and to_sql derives the SQL type *)
(* of a new table's column from the dtype.                                 *)
(***************************************************************************)
NoTable == [exists |-> FALSE, types |-> <<>>, rows |-> <<>>]

\* the dtype pandas gives a column holding these values
Dtype(values) ==
    IF values # {} /\ \A v \in values : v.kind = "int" THEN "int64"
    ELSE IF /\ \A v \in values : v.kind \in {"int", "float", "null"}
            /\ \E v \in values : v.kind # "null"
         THEN "float64"
         ELSE "object"

\* the values of one column of a frame
ColumnValues(df, col) == {RowGet(df[i], col) : i \in 1..Len(df)}

\* the columns of a frame (all its rows have the same keys)
FrameColumns(df) == IF df = <<>> THEN {} ELSE DOMAIN df[1]

\* the SQL type to_sql gives a column of this dtype
SqlType(dtype) ==
    CASE dtype = "int64" -> "BIGINT"
      [] dtype = "float64" -> "FLOAT"
      [] OTHER -> "TEXT"

\* the value as a float: 1 becomes 1.0
AsFloat(v) == IF v.kind = "int" THEN [kind |-> "float", s |-> v.s \o <<".0">>] ELSE v

\* a float with no fractional part: 1.0
IsIntegral(v) == v.kind = "float" /\ v.s # <<>> /\ v.s[Len(v.s)] = ".0"

\* the integer an integral float stands for: 1.0 becomes 1
AsInt(v) ==
    IF IsIntegral(v) THEN [kind |-> "int", s |-> SubSeq(v.s, 1, Len(v.s) - 1)] ELSE v

\* whether the store accepts the value in a column of this type: a text
\* column takes any value, a numeric column takes numbers (a string such as
\* "" is rejected with "invalid input syntax")
Storable(type, v) ==
    \/ v.kind = "null"
    \/ type = "TEXT"
    \/ type = "BIGINT" /\ (v.kind = "int" \/ IsIntegral(v))
    \/ type = "FLOAT" /\ v.kind \in {"int", "float"}

\* the value as the column stores it: a text column holds the value's text,
\* a numeric column the number cast to its type
Stored(type, v) ==
    IF v.kind = "null" THEN Null
    ELSE IF type = "TEXT" THEN StrV(v.s)
    ELSE IF type = "BIGINT" THEN AsInt(v)
    ELSE AsFloat(v)

\* whether the row can be appended to the table: known columns, storable values
RowFits(tbl, r) ==
    /\ DOMAIN r \subseteq DOMAIN tbl.types
    /\ \A c \in DOMAIN r : Storable(tbl.types[c], r[c])

\* the row as the table stores it (columns the row lacks are NULL)
StoredRow(tbl, r) ==
    [c \in DOMAIN tbl.types |-> Stored(tbl.types[c], RowGet(r, c))]

\* the table that to_sql(if_exists="append") writes to: the existing one, or a
\* new one with a column per column of the frame
AppendTarget(tbl, df) ==
    IF tbl.exists THEN tbl
    ELSE [exists |-> TRUE,
          types |-> [c \in FrameColumns(df) |-> SqlType(Dtype(ColumnValues(df, c)))],
          rows |-> <<>>]

(***************************************************************************)
(* Inputs of the ingestion pipeline.                                       *)
(***************************************************************************)
HiredColumns == <<"id", "name", "datetime", "department_id", "job_id">>

Hired(id, name, dt) ==
    [id |-> IntV(id), name |-> StrV(name), datetime |-> StrV(dt),
     department_id |-> IntV("1"), job_id |-> IntV("1")]

good1 == Hired("1", <<"a">>, <<"2021-07-15", "T", "10:00", ":30", "Z">>)
good2 == Hired("2", <<"b">>, <<"2021-07-15", "T", "10:00", ":30">>)
good3 == Hired("3", <<" ", "a", " ">>, <<"2021-07-15">>)
badName == Hired("4", <<>>, <<"2021-07-15", "T", "10:00", ":30", "Z">>)
badDate == Hired("5", <<"a">>, <<"not-a-date">>)

RowPool == {good1, good2, badName, badDate}

\* five records, index 2 with an empty name and index 4 with a bad datetime
ScenarioBatch == <<good1, good2, badName, good3, badDate>>

Batches == UNION {[1..n -> RowPool] : n \in 0..MaxBatch} \cup {ScenarioBatch}

ProcessTypes == {"ingestion", "migration"}

TableNames == {"hired_employees", "departments", "jobs", "other"}

HiredTypes ==
    [id |-> "BIGINT", name |-> "TEXT", datetime |-> "TEXT",
     department_id |-> "BIGINT", job_id |-> "BIGINT"]

(***************************************************************************)
(* State.                                                                  *)
(*   row, expected, errors,         one application of the Row Validator   *)
(*   accepted, rowPc                                                       *)
(*   tables                         the relational store (committed state) *)
(*   logFiles                       the quarantine log files on disk       *)
(*   clock                          datetime.now(), in seconds             *)
(*   call                           the running call or request: of        *)
(*                                  process_and_insert, validate_dataframe,*)
(*                                  restore_endpoint, ingest_data or       *)
(*                                  migrate_data, by specification         *)
(*   config                         config.yaml: the backup.files map      *)
(*   snapshots                      the snapshot files on disk, by path    *)
(*   procs                          the running backup_table and           *)
(*                                  restore_table calls, one per caller    *)
(*   nops                           the backup and restore calls so far    *)
(*                                  (a call's serial is its rank among them)*)
(***************************************************************************)
VARIABLES row, expected, errors, accepted, rowPc, tables, logFiles, clock, call,
          config, snapshots, procs, nops

rowVars == <<row, expected, errors, accepted, rowPc>>
pipeVars == <<tables, logFiles, clock, call>>
backupVars == <<config, snapshots, procs, nops>>
vars == <<row, expected, errors, accepted, rowPc, tables, logFiles, clock, call,
          config, snapshots, procs, nops>>

NoFile == [process_type |-> "", table |-> "", timestamp |-> 0]

IdleCall ==
    [pc |-> "idle", df |-> <<>>, expected_columns |-> <<>>, table_name |-> "",
     process_type |-> "", error_log |-> <<>>, valid_indices |-> <<>>,
     df_valid |-> <<>>, log_file |-> NoFile, pending |-> <<>>, begun |-> 0,
     failed_at |-> 0, before |-> NoTable, result |-> ""]

RowIdle ==
    /\ row = <<>>
    /\ expected = <<>>
    /\ errors = <<>>
    /\ accepted = <<>>
    /\ rowPc = "off"

Procs == {"p1", "p2"}

IdleProc ==
    [op |-> "none", pc |-> "idle", serial |-> 0, table |-> "", df |-> <<>>,
     files |-> <<>>,
     path |-> <<>>, created |-> FALSE,
     before |-> NoTable, result |-> ""]

BackupIdle ==
    /\ config = [files |-> <<>>]
    /\ snapshots = <<>>
    /\ procs = [p \in Procs |-> IdleProc]
    /\ nops = 0

PipeIdle ==
    /\ tables = [t \in TableNames |-> NoTable]
    /\ logFiles = <<>>
    /\ clock = 0
    /\ call = IdleCall

(***************************************************************************)
(* process_and_insert, step by step.                                       *)
(***************************************************************************)
\* the caller invokes process_and_insert(df, expected_columns, table_name, ...)
process_and_insert(df, table_name, process_type) ==
    /\ call.pc = "idle"
    /\ call' = [IdleCall EXCEPT !.pc = "scan", !.df = df,
                                !.expected_columns = HiredColumns,
                                !.table_name = table_name,
                                !.process_type = process_type,
                                !.before = tables[table_name]]
    /\ UNCHANGED <<tables, logFiles, clock>>

\* validate_dataframe, lines 40-53: the loop over the rows
validate_dataframe_scan ==
    /\ call.pc = "scan"
    /\ LET r == ScanRows(call.df, call.expected_columns, call.table_name, 1)
       IN  call' = [call EXCEPT !.error_log = r.error_log,
                                !.valid_indices = r.valid_indices,
                                !.pc = IF r.error_log # <<>> THEN "log" ELSE "select"]
    /\ UNCHANGED <<tables, logFiles, clock>>

\* validate_dataframe, lines 55-63: open(log_file, "w") and json.dump succeed
write_error_log ==
    /\ call.pc = "log"
    /\ LET log_file == LogFileName(call.process_type, call.table_name, clock)
       IN  /\ logFiles' = (log_file :> call.error_log) @@ logFiles
           /\ call' = [call EXCEPT !.log_file = log_file, !.pc = "select"]
    /\ UNCHANGED <<tables, clock>>

\* validate_dataframe, lines 55-63: makedirs, open or dump raises; nothing
\* catches it, neither here nor in process_and_insert (lines 76-83)
write_error_log_raises ==
    /\ call.pc = "log"
    /\ call' = [call EXCEPT !.pc = "done", !.result = "OSError"]
    /\ UNCHANGED <<tables, logFiles, clock>>

\* validator.py line 65 and lines 76-81: df.loc[valid_indices], the empty test,
\* engine.begin()
select_valid ==
    /\ call.pc = "select"
    /\ LET df_valid == Loc(call.df, call.valid_indices)
       IN  IF df_valid = <<>>
           THEN call' = [call EXCEPT !.df_valid = df_valid, !.pc = "done",
                                     !.result = "NoValidRecords"]
           ELSE call' = [call EXCEPT !.df_valid = df_valid, !.pc = "tx",
                                     !.begun = @ + 1]
    /\ UNCHANGED <<tables, logFiles, clock>>

\* the table the open transaction appends to
TxTarget == AppendTarget(tables[call.table_name], call.df_valid)

\* df_valid.to_sql(...), line 82: the next row goes into the open transaction
to_sql_row ==
    /\ call.pc = "tx"
    /\ Len(call.pending) < Len(call.df_valid)
    /\ LET r == call.df_valid[Len(call.pending) + 1]
       IN  /\ RowFits(TxTarget, r)
           /\ call' = [call EXCEPT !.pending = Append(@, StoredRow(TxTarget, r))]
    /\ UNCHANGED <<tables, logFiles, clock>>

\* a variant of the rollback below that keeps the rows already sent
RolledBackKeepsRows(tbl, target, pending) == [target EXCEPT !.rows = @ \o pending]

\* what the store holds after the transaction is rolled back
RolledBack(tbl, target, pending) == tbl

\* what the store holds after the transaction commits
Committed(tbl, target, pending) == [target EXCEPT !.rows = @ \o pending]

\* the store raises inside the with block (lines 81-82): __exit__ rolls the
\* transaction back and the exception leaves process_and_insert
transaction_fails ==
    /\ call.pc = "tx"
    /\ tables' = [tables EXCEPT ![call.table_name] =
                      RolledBack(@, TxTarget, call.pending)]
    /\ call' = [call EXCEPT !.pc = "done", !.result = "StorageFailure",
                            !.failed_at = Len(call.pending), !.pending = <<>>]
    /\ UNCHANGED <<logFiles, clock>>

\* the with block ends (line 82 to 83): commit
transaction_commits ==
    /\ call.pc = "tx"
    /\ Len(call.pending) = Len(call.df_valid)
    /\ tables' = [tables EXCEPT ![call.table_name] =
                      Committed(@, TxTarget, call.pending)]
    /\ call' = [call EXCEPT !.pc = "done", !.result = "Inserted", !.pending = <<>>]
    /\ UNCHANGED <<logFiles, clock>>

\* a second passes
Tick ==
    /\ clock < MaxClock
    /\ clock' = clock + 1
    /\ UNCHANGED <<tables, logFiles, call>>

InitialHired ==
    {NoTable} \cup
    {[exists |-> TRUE, types |-> HiredTypes, rows |-> rs] : rs \in {<<>>, <<good3>>}}

Init ==
    /\ RowIdle
    /\ tables \in {[t \in TableNames |->
                      IF t = "hired_employees" THEN h ELSE NoTable] : h \in InitialHired}
    /\ logFiles = <<>>
    /\ clock = 0
    /\ call = IdleCall
    /\ BackupIdle

Next ==
    \/ \E df \in Batches, process_type \in ProcessTypes :
          process_and_insert(df, "hired_employees", process_type) /\ UNCHANGED <<rowVars, backupVars>>
    \/ validate_dataframe_scan /\ UNCHANGED <<rowVars, backupVars>>
    \/ write_error_log /\ UNCHANGED <<rowVars, backupVars>>
    \/ write_error_log_raises /\ UNCHANGED <<rowVars, backupVars>>
    \/ select_valid /\ UNCHANGED <<rowVars, backupVars>>
    \/ to_sql_row /\ UNCHANGED <<rowVars, backupVars>>
    \/ transaction_fails /\ UNCHANGED <<rowVars, backupVars>>
    \/ transaction_commits /\ UNCHANGED <<rowVars, backupVars>>
    \/ Tick /\ UNCHANGED <<rowVars, backupVars>>

Spec == Init /\ [][Next]_vars

(***************************************************************************)
(* The Row Validator on its own: validate_row, and validate_dataframe on   *)
(* the frame of that one row, for records drawn from the pools below.      *)
(***************************************************************************)
Absent == [kind |-> "absent", s |-> <<>>]

\* a record without the keys marked Absent
WithoutAbsent(f) == [c \in {c \in DOMAIN f : f[c] # Absent} |-> f[c]]

DatetimeSamples ==
    { <<"2021-07-15", "T", "10:00", ":30">>,
      <<"2021-07-15", "T", "10:00", ":30", "Z">>,
      <<"2021-07-15", "T", "10:00", "+00:00">>,
      <<"2021-07-15", " ", "10:00">>,
      <<"2021-07-15">>,
      <<"2021-07-15", "Z">>,
      <<"2021-07-15", "T", "10:00", "Z", ":30">>,
      <<" ", "2021-07-15">>,
      <<"not-a-date">>,
      <<" ">>,
      <<>> }

IdPool == {Absent, Null, IntV("1")}
NamePool ==
    {Null, IntV("1")} \cup
    {StrV(t) : t \in {<<>>, <<" ">>, <<" ", " ">>, <<"a">>, <<" ", "a", " ">>,
                      <<"not-a-date">>}}
DatetimePool == {Absent, Null, IntV("1")} \cup {StrV(t) : t \in DatetimeSamples}
DepartmentIdPool == {Null, IntV("1")}

RowInputs ==
    { WithoutAbsent([id |-> a, name |-> b, datetime |-> c, department_id |-> d,
                     job_id |-> IntV("1")]) :
        a \in IdPool, b \in NamePool, c \in DatetimePool, d \in DepartmentIdPool }

ExpectedInputs == {HiredColumns, <<"id", "name">>}

InitRow ==
    /\ row \in RowInputs
    /\ expected \in ExpectedInputs
    /\ errors = <<>>
    /\ accepted = <<>>
    /\ rowPc = "start"
    /\ PipeIdle
    /\ BackupIdle

\* validate_row(row, expected), and what validate_dataframe returns for the
\* frame holding this row alone
validate_one_row ==
    /\ rowPc = "start"
    /\ errors' = validate_row(row, expected)
    /\ accepted' = Loc(<<row>>, ScanRows(<<row>>, expected, "hired_employees", 1).valid_indices)
    /\ rowPc' = "done"
    /\ UNCHANGED <<row, expected>>

NextRow == validate_one_row /\ UNCHANGED <<pipeVars, backupVars>>

SpecRow == InitRow /\ [][NextRow]_vars

(***************************************************************************)
(* Properties.                                                             *)
(***************************************************************************)
Range(f) == {f[i] : i \in DOMAIN f}

\* an empty or whitespace-only string
IsBlank(v) == v.kind = "str" /\ \A i \in 1..Len(v.s) : v.s[i] = " "

\* the record has no value for the column, or a null, or a blank string
LacksValue(r, col) == col \notin DOMAIN r \/ r[col].kind = "null" \/ IsBlank(r[col])

\* C2: for every record and every expected column, validate_row emits a
\* MissingOrEmpty defect naming the column if and only if the record has no
\* value for it, the value is null, or it is an empty or whitespace-only
\* string; and a record with such a column is not in the accepted batch.
C2_MissingOrEmpty ==
    rowPc = "done" =>
        \A i \in 1..Len(expected) :
            /\ (MissingOrEmpty(expected[i]) \in Range(errors))
                   <=> LacksValue(row, expected[i])
            /\ LacksValue(row, expected[i]) => accepted = <<>>

\* C2 witness: a whitespace-only name was reported and the record rejected,
\* while the other columns of the record, which have values, were not reported
C2_Witness ==
    /\ rowPc = "done"
    /\ expected = HiredColumns
    /\ "name" \in DOMAIN row
    /\ row["name"] = StrV(<<" ", " ">>)
    /\ errors = <<MissingOrEmpty("name")>>
    /\ accepted = <<>>

\* a trailing Z read as the offset +00:00, the rest of the string untouched
TrailingZAsOffset(toks) ==
    IF toks # <<>> /\ toks[Len(toks)] = "Z"
    THEN SubSeq(toks, 1, Len(toks) - 1) \o <<"+00:00">>
    ELSE toks

\* C3 (the claim as stated): validate_row emits InvalidTimestamp exactly when
\* the expected column datetime holds a non-null string that does not parse as
\* ISO-8601 once a trailing Z is read as +00:00; no other column produces one.
C3_InvalidTimestampExactly ==
    rowPc = "done" =>
        /\ (InvalidTimestamp \in Range(errors))
               <=> /\ "datetime" \in Range(expected)
                   /\ RowGet(row, "datetime").kind = "str"
                   /\ ~fromisoformat(TrailingZAsOffset(RowGet(row, "datetime").s))
        /\ \A k \in 1..Len(errors) :
               errors[k].kind = "InvalidTimestamp" => errors[k].column = "datetime"

\* the records of the frame without defects, in their order
WithoutDefects(df, expected_columns) ==
    LET Clean(r) == validate_row(r, expected_columns) = <<>>
    IN  SelectSeq(df, Clean)

\* the rows as the table stores them
StoredRows(tbl, rs) == [k \in 1..Len(rs) |-> StoredRow(tbl, rs[k])]

\* the quarantine entries the call wrote to its log file
WrittenEntries == IF call.log_file = NoFile THEN <<>> ELSE logFiles[call.log_file]

\* C1: when the insert of a batch succeeds, the destination table holds what it
\* held before followed by exactly the records without defects, in their
\* original order; every record with defects is in exactly one quarantine
\* entry, with its row index, the record and its defects; no record without
\* defects is quarantined.
C1_Partition ==
    (call.pc = "done" /\ call.result = "Inserted") =>
        LET df == call.df
            cols == call.expected_columns
            tbl == tables[call.table_name]
            EntriesOf(i) == {k \in 1..Len(WrittenEntries) :
                                WrittenEntries[k].row_index = i - 1}
        IN  /\ tbl.exists
            /\ tbl.rows = call.before.rows \o StoredRows(tbl, WithoutDefects(df, cols))
            /\ \A i \in 1..Len(df) :
                   IF validate_row(df[i], cols) = <<>>
                   THEN EntriesOf(i) = {}
                   ELSE /\ Cardinality(EntriesOf(i)) = 1
                        /\ \A k \in EntriesOf(i) :
                               /\ WrittenEntries[k].table = call.table_name
                               /\ WrittenEntries[k].data = df[i]
                               /\ WrittenEntries[k].errors = validate_row(df[i], cols)
            /\ \A k \in 1..Len(WrittenEntries) :
                   WrittenEntries[k].row_index \in 0..(Len(df) - 1)

\* C1 witness: the batch of five records with defects at indices 2 and 4 was
\* inserted: the other three were appended and those two quarantined
C1_Witness ==
    /\ call.pc = "done"
    /\ call.result = "Inserted"
    /\ call.df = ScenarioBatch
    /\ tables[call.table_name].rows = call.before.rows \o <<good1, good2, good3>>
    /\ Len(WrittenEntries) = 2
    /\ WrittenEntries[1].row_index = 2
    /\ WrittenEntries[1].errors = <<MissingOrEmpty("name")>>
    /\ WrittenEntries[2].row_index = 4
    /\ WrittenEntries[2].errors = <<InvalidTimestamp>>

\* C4: while the transaction of process_and_insert is open, and after it has
\* failed at any point, the destination table is as it was before the call:
\* no row of the batch is visible; and a transaction is begun at most once
\* per call (no retry).
C4_Atomic ==
    /\ call.pc = "tx" => tables[call.table_name] = call.before
    /\ (call.pc = "done" /\ call.result = "StorageFailure") =>
           tables[call.table_name] = call.before
    /\ call.begun <= 1

\* C4 witness: the transaction failed partway through an accepted batch of
\* more than one row
C4_Witness ==
    /\ call.pc = "done"
    /\ call.result = "StorageFailure"
    /\ Len(call.df_valid) > 1
    /\ call.failed_at >= 1
    /\ call.failed_at < Len(call.df_valid)

\* C5 (the claim as stated): when writing the quarantine log fails, the
\* accepted rows of the batch are still appended to the destination table.
C5_LogFailureHarmless ==
    (call.pc = "done" /\ call.result = "OSError") =>
        tables[call.table_name].rows =
            call.before.rows \o WithoutDefects(call.df, call.expected_columns)

\* C6 (the claim as stated): when every record of the batch has a defect, or
\* the batch is empty, process_and_insert opens no transaction, writes nothing
\* to the store, reports NoValidRecords and returns without raising.
C6_NoValidRecords ==
    (call.pc = "done" /\ WithoutDefects(call.df, call.expected_columns) = <<>>) =>
        /\ call.begun = 0
        /\ tables[call.table_name] = call.before
        /\ call.result = "NoValidRecords"

(***************************************************************************)
(* Backup / restore serializer (src/data/backup.py).                       *)
(*                                                                         *)
(* A snapshot file holds the Avro schema (a type per column) and the       *)
(* records; "source" is a history field, the table as the backup read it.  *)
(* config.yaml holds backup.files (table name -> path); its csv section    *)
(* (the catalog) and backup.directory do not change.                       *)
(***************************************************************************)
MaxOps == 3

backup_dir == "data/backup"

\* config["csv"][table_name]["columns"]; a table the catalog does not list
\* has none
CsvColumns(table_name) ==
    CASE table_name = "hired_employees" -> HiredColumns
      [] table_name = "departments" -> <<"id", "department">>
      [] table_name = "jobs" -> <<"id", "job">>
      [] OTHER -> <<>>

\* os.path.join(backup_dir, f"{table_name}.avro")
BackupFile(table_name) == <<backup_dir, table_name, ".avro">>

\* pd.read_sql("SELECT * FROM t"): the rows, each column with the dtype its
\* values give it (integers next to NULLs become floats; a column of NULLs
\* only, or of no rows, is an object column)
read_sql(tbl) ==
    [i \in 1..Len(tbl.rows) |->
        [c \in DOMAIN tbl.types |->
            IF Dtype(ColumnValues(tbl.rows, c)) = "float64"
            THEN AsFloat(tbl.rows[i][c])
            ELSE tbl.rows[i][c]]]

\* Series.fillna("").astype(str)
fillna_astype_str(v) == StrV(v.s)

\* lines 82-87: every object column, and the "datetime" column, as strings
Clean(df, columns) ==
    [i \in 1..Len(df) |->
        [c \in columns |->
            IF Dtype(ColumnValues(df, c)) = "object" \/ c = "datetime"
            THEN fillna_astype_str(df[i][c])
            ELSE df[i][c]]]

type_mapping(dtype) ==
    CASE dtype = "int64" -> "long"
      [] dtype = "float64" -> "double"
      [] OTHER -> "string"

\* the Avro type of each column
generate_avro_schema(df, columns) ==
    [c \in columns |-> type_mapping(Dtype(ColumnValues(df, c)))]

\* whether fastavro's writer accepts the value for a field of this type
AvroFits(type, v) ==
    CASE type = "long" -> v.kind = "int"
      [] type = "double" -> v.kind \in {"float", "int", "null"}
      [] OTHER -> v.kind = "str"

\* a file opened for writing and left without content
EmptyFile == [valid |-> FALSE, schema |-> <<>>, records |-> <<>>, source |-> NoTable]

\* the file backup_table leaves at its path: the snapshot, or an empty file
\* when the writer raises
WrittenFile(tbl) ==
    LET columns == DOMAIN tbl.types
        df == Clean(read_sql(tbl), columns)
        schema == generate_avro_schema(df, columns)
    IN  IF \A i \in 1..Len(df) : \A c \in columns : AvroFits(schema[c], df[i][c])
        THEN [valid |-> TRUE, schema |-> schema, records |-> df, source |-> tbl]
        ELSE EmptyFile

\* a created table whose id column is an integer key
CreatedTableWithKey(columns) ==
    [exists |-> TRUE,
     types |-> [c \in {columns[i] : i \in 1..Len(columns)} |->
                  IF c = "id" THEN "BIGINT" ELSE "TEXT"],
     rows |-> <<>>]

\* the table restore_table creates: every catalog column as a string column
CreatedTable(columns) ==
    [exists |-> TRUE,
     types |-> [c \in {columns[i] : i \in 1..Len(columns)} |-> "TEXT"],
     rows |-> <<>>]

Finished(p, outcome) ==
    [procs EXCEPT ![p].pc = "done", ![p].result = outcome]

Free(p) == procs[p].pc \in {"idle", "done"}

(***************************************************************************)
(* backup_table, by caller p.                                              *)
(***************************************************************************)
\* lines 72-80: the call reads the table; a missing table raises
backup_table(p, table_name) ==
    /\ Free(p)
    /\ nops < MaxOps
    /\ nops' = nops + 1
    /\ LET started == [IdleProc EXCEPT !.op = "backup", !.serial = nops + 1,
                                      !.table = table_name] IN
       IF tables[table_name].exists
       THEN procs' = [procs EXCEPT ![p] =
                [started EXCEPT !.pc = "write", !.before = tables[table_name]]]
       ELSE procs' = [procs EXCEPT ![p] =
                [started EXCEPT !.pc = "done", !.result = "ProgrammingError"]]
    /\ UNCHANGED <<config, snapshots>>
    /\ UNCHANGED <<rowVars, pipeVars>>

\* the step of backup_table that writes the file, the write left out
write_snapshot_skipped(p) ==
    /\ procs[p].pc = "write"
    /\ procs' = [procs EXCEPT ![p].pc = "load_config",
                              ![p].path = BackupFile(procs[p].table)]
    /\ UNCHANGED <<config, snapshots, nops>>
    /\ UNCHANGED <<rowVars, pipeVars>>

\* lines 82-95: clean, derive the schema, write the file over any previous one
write_snapshot(p) ==
    /\ procs[p].pc = "write"
    /\ LET backup_file == BackupFile(procs[p].table)
           file == WrittenFile(procs[p].before)
       IN  /\ snapshots' = (backup_file :> file) @@ snapshots
           /\ IF file.valid
              THEN procs' = [procs EXCEPT ![p].pc = "load_config",
                                          ![p].path = backup_file]
              ELSE procs' = Finished(p, "ValueError")
    /\ UNCHANGED <<config, nops>>
    /\ UNCHANGED <<rowVars, pipeVars>>

\* update_backup_config, line 53: load the configuration
load_config(p) ==
    /\ procs[p].pc = "load_config"
    /\ procs' = [procs EXCEPT ![p].pc = "dump_config", ![p].files = config.files]
    /\ UNCHANGED <<config, snapshots, nops>>
    /\ UNCHANGED <<rowVars, pipeVars>>

\* update_backup_config, lines 55-60: set the entry of the table in the loaded
\* configuration and write it back
dump_config(p) ==
    /\ procs[p].pc = "dump_config"
    /\ config' = [files |-> (procs[p].table :> procs[p].path) @@ procs[p].files]
    /\ procs' = Finished(p, "BackedUp")
    /\ UNCHANGED <<snapshots, nops>>
    /\ UNCHANGED <<rowVars, pipeVars>>

(***************************************************************************)
(* restore_table, by caller p.                                             *)
(***************************************************************************)
\* the lookup without the os.path.exists test
NoSnapshotNoFileCheck(files, disk, table_name) == table_name \notin DOMAIN files

\* line 111: no pointer for the table, or no file at the path it names
NoSnapshot(files, disk, table_name) ==
    \/ table_name \notin DOMAIN files
    \/ files[table_name] \notin DOMAIN disk

\* lines 108-113: look the pointer up; without snapshot, log and return
restore_table(p, table_name) ==
    /\ Free(p)
    /\ nops < MaxOps
    /\ nops' = nops + 1
    /\ LET started == [IdleProc EXCEPT !.op = "restore", !.serial = nops + 1,
                                      !.table = table_name,
                                      !.before = tables[table_name]] IN
       IF NoSnapshot(config.files, snapshots, table_name)
       THEN procs' = [procs EXCEPT ![p] =
                [started EXCEPT !.pc = "done", !.result = "NoBackupFound"]]
       ELSE procs' = [procs EXCEPT ![p] =
                [started EXCEPT !.pc = "read", !.path = config.files[table_name]]]
    /\ UNCHANGED <<config, snapshots>>
    /\ UNCHANGED <<rowVars, pipeVars>>

\* lines 115-123: decode the records; none: log a warning and return
read_snapshot(p) ==
    /\ procs[p].pc = "read"
    /\ LET file == IF procs[p].path \in DOMAIN snapshots
                   THEN snapshots[procs[p].path] ELSE EmptyFile
       IN  IF ~file.valid THEN procs' = Finished(p, "ValueError")
           ELSE IF file.records = <<>> THEN procs' = Finished(p, "EmptyBackup")
           ELSE procs' = [procs EXCEPT ![p].pc = "inspect", ![p].df = file.records]
    /\ UNCHANGED <<config, snapshots, nops>>
    /\ UNCHANGED <<rowVars, pipeVars>>

\* line 132: the columns of the table to create, from the catalog
ColumnsForCreate(table_name) == CsvColumns(table_name)

\* lines 125-142: a missing table is created from the catalog, all columns
\* strings; without catalog columns, log an error and return
inspect_table(p) ==
    /\ procs[p].pc = "inspect"
    /\ LET table_name == procs[p].table
           tbl == tables[table_name]
           columns == ColumnsForCreate(table_name)
       IN  IF tbl.exists
           THEN /\ procs' = [procs EXCEPT ![p].pc = "tx"]
                /\ UNCHANGED tables
           ELSE IF columns = <<>>
           THEN /\ procs' = Finished(p, "NoColumns")
                /\ UNCHANGED tables
           ELSE /\ procs' = [procs EXCEPT ![p].pc = "tx", ![p].created = TRUE]
                /\ tables' = [tables EXCEPT ![table_name] = CreatedTable(columns)]
    /\ UNCHANGED <<config, snapshots, nops>>
    /\ UNCHANGED <<rowVars, logFiles, clock, call>>

\* lines 145-146, the transaction raises (a value the column rejects, or the
\* store fails): rolled back, the table as it was
to_sql_raises(p) ==
    /\ procs[p].pc = "tx"
    /\ procs' = Finished(p, IF \A i \in 1..Len(procs[p].df) :
                                  RowFits(tables[procs[p].table], procs[p].df[i])
                            THEN "StorageFailure" ELSE "DataError")
    /\ UNCHANGED <<config, snapshots, nops>>
    /\ UNCHANGED <<rowVars, pipeVars>>

\* the transaction commits with the rows of the table replaced by the
\* decoded rows
to_sql_replaces(p) ==
    /\ procs[p].pc = "tx"
    /\ LET table_name == procs[p].table
           tbl == tables[table_name]
           df == procs[p].df
       IN  /\ \A i \in 1..Len(df) : RowFits(tbl, df[i])
           /\ tables' = [tables EXCEPT ![table_name].rows =
                            [i \in 1..Len(df) |-> StoredRow(tbl, df[i])]]
    /\ procs' = Finished(p, "Restored")
    /\ UNCHANGED <<config, snapshots, nops>>
    /\ UNCHANGED <<rowVars, logFiles, clock, call>>

\* lines 145-146, the transaction commits: every decoded row appended
to_sql_commits(p) ==
    /\ procs[p].pc = "tx"
    /\ LET table_name == procs[p].table
           tbl == tables[table_name]
           df == procs[p].df
       IN  /\ \A i \in 1..Len(df) : RowFits(tbl, df[i])
           /\ tables' = [tables EXCEPT ![table_name].rows =
                            @ \o [i \in 1..Len(df) |-> StoredRow(tbl, df[i])]]
    /\ procs' = Finished(p, "Restored")
    /\ UNCHANGED <<config, snapshots, nops>>
    /\ UNCHANGED <<rowVars, logFiles, clock, call>>

(***************************************************************************)
(* The operator of the store, between calls: DROP TABLE, DELETE FROM.      *)
(***************************************************************************)
DropTable(table_name) ==
    /\ \A p \in Procs : Free(p)
    /\ table_name \in DOMAIN config.files
    /\ tables[table_name].exists
    /\ tables' = [tables EXCEPT ![table_name] = NoTable]
    /\ UNCHANGED backupVars
    /\ UNCHANGED <<rowVars, logFiles, clock, call>>

DeleteRows(table_name) ==
    /\ \A p \in Procs : Free(p)
    /\ table_name \in DOMAIN config.files
    /\ tables[table_name].exists
    /\ tables[table_name].rows # <<>>
    /\ tables' = [tables EXCEPT ![table_name].rows = <<>>]
    /\ UNCHANGED backupVars
    /\ UNCHANGED <<rowVars, logFiles, clock, call>>

(***************************************************************************)
(* Inputs of backup and restore.                                           *)
(***************************************************************************)
\* hired_employees as a migration of a file with missing values leaves it
HiredTypesWithMissing ==
    [id |-> "BIGINT", name |-> "TEXT", datetime |-> "TEXT",
     department_id |-> "FLOAT", job_id |-> "FLOAT"]

full ==
    [id |-> IntV("1"), name |-> StrV(<<"a">>), datetime |-> StrV(<<"2021-07-15">>),
     department_id |-> FloatV("1.0"), job_id |-> FloatV("2.0")]

partial ==
    [id |-> IntV("2"), name |-> Null, datetime |-> Null,
     department_id |-> FloatV("1.0"), job_id |-> Null]

InitialHiredBackup ==
    {NoTable,
     [exists |-> TRUE, types |-> HiredTypes, rows |-> <<>>],
     [exists |-> TRUE, types |-> HiredTypesWithMissing, rows |-> <<full, partial>>],
     [exists |-> TRUE, types |-> HiredTypesWithMissing, rows |-> <<partial>>]}

InitialDepartments ==
    [exists |-> TRUE, types |-> [id |-> "BIGINT", department |-> "TEXT"],
     rows |-> <<[id |-> IntV("1"), department |-> StrV(<<"a">>)]>>]

InitialOther ==
    [exists |-> TRUE, types |-> [id |-> "BIGINT"], rows |-> <<[id |-> IntV("1")]>>]

BackupTables == {"hired_employees", "departments", "other"}
RestoreTables == BackupTables \cup {"jobs"}

InitBackup ==
    /\ RowIdle
    /\ call = IdleCall
    /\ logFiles = <<>>
    /\ clock = 0
    /\ \E h \in InitialHiredBackup :
          tables = [t \in TableNames |->
                      CASE t = "hired_employees" -> h
                        [] t = "departments" -> InitialDepartments
                        [] t = "other" -> InitialOther
                        [] OTHER -> NoTable]
    /\ config \in {[files |-> <<>>], [files |-> ("jobs" :> BackupFile("jobs"))]}
    /\ snapshots = <<>>
    /\ procs = [p \in Procs |-> IdleProc]
    /\ nops = 0

Step(p) ==
    \/ \E t \in BackupTables : backup_table(p, t)
    \/ write_snapshot(p)
    \/ load_config(p)
    \/ dump_config(p)
    \/ \E t \in RestoreTables : restore_table(p, t)
    \/ read_snapshot(p)
    \/ inspect_table(p)
    \/ to_sql_raises(p)
    \/ to_sql_commits(p)

Operator ==
    \/ \E t \in {"hired_employees", "other"} : DropTable(t)
    \/ DeleteRows("hired_employees")

NextBackup == (\E p \in Procs : Step(p)) \/ Operator

SpecBackup == InitBackup /\ [][NextBackup]_vars

\* one caller: the calls run one after the other
NextSerial == Step("p1") \/ Operator

SpecSerial == InitBackup /\ [][NextSerial]_vars

(***************************************************************************)
(* Properties of backup and restore.                                       *)
(***************************************************************************)
\* a sequence as a multiset: how many times each element occurs
BagOf(seq) ==
    [x \in Range(seq) |-> Cardinality({i \in 1..Len(seq) : seq[i] = x})]

\* a value as a string (a null stays a null)
AsString(v) == IF v.kind = "null" THEN Null ELSE StrV(v.s)

\* the rows of a table, every value as a string
RowsAsStrings(tbl) ==
    [i \in 1..Len(tbl.rows) |->
        [c \in DOMAIN tbl.types |-> AsString(tbl.rows[i][c])]]

\* the rows of a table as a round trip is to return them: every value as a
\* string, a null of a text column as the empty string
RoundTripOf(tbl) ==
    [i \in 1..Len(tbl.rows) |->
        [c \in DOMAIN tbl.types |->
            IF tbl.types[c] = "TEXT" /\ tbl.rows[i][c].kind = "null"
            THEN StrV(<<>>)
            ELSE AsString(tbl.rows[i][c])]]

\* in this step caller p comes to the end of a restore_table call, the store
\* not failing, on a table that existed and had no rows when it was called
RestoresIntoEmpty(p) ==
    /\ procs[p].op = "restore"
    /\ procs[p].pc # "done"
    /\ procs'[p].pc = "done"
    /\ procs'[p].result # "StorageFailure"
    /\ procs[p].before.exists
    /\ procs[p].before.rows = <<>>

\* C7: backup_table(T) then restore_table(T) into an initially-empty
\* destination table leaves in it the rows T had at the moment of the backup,
\* column for column as strings, nulls of text columns as empty strings.
C7_RoundTrip ==
    [][\A p \in Procs :
          RestoresIntoEmpty(p) =>
              LET table_name == procs[p].table
                  snapshot == snapshots[procs[p].path]
              IN  BagOf(RowsAsStrings(tables'[table_name])) =
                      BagOf(RoundTripOf(snapshot.source))]_vars

\* restore_table(T) begins in this step, by caller p
RestoreBegins(p, table_name) ==
    /\ procs'[p].serial = nops + 1
    /\ procs'[p].op = "restore"
    /\ procs'[p].table = table_name

\* backup.files has no entry for the table, or no file is at the path
LacksSnapshot(table_name) ==
    \/ table_name \notin DOMAIN config.files
    \/ config.files[table_name] \notin DOMAIN snapshots

\* C8: restore_table(T) called when backup.files has no entry for T, or when
\* no file is at the recorded path, ends at once with the outcome
\* NoBackupFound: it does not raise, creates no table, writes nothing.
C8_NoBackupFound ==
    [][\A p \in Procs : \A t \in TableNames :
          (RestoreBegins(p, t) /\ LacksSnapshot(t)) =>
              /\ procs'[p].pc = "done"
              /\ procs'[p].result = "NoBackupFound"
              /\ tables' = tables]_vars

\* a restore that found a pointer to a file that is not on disk
C8_Witness ==
    \E p \in Procs :
        /\ procs[p].op = "restore"
        /\ procs[p].pc = "done"
        /\ procs[p].result = "NoBackupFound"
        /\ procs[p].table \in DOMAIN config.files
        /\ config.files[procs[p].table] \notin DOMAIN snapshots

\* the columns of a sequence of column names
ColumnSet(columns) == {columns[i] : i \in 1..Len(columns)}

\* a table of text columns only, one per column of the catalog, no rows
IsFreshTextTable(tbl, table_name) ==
    /\ tbl.exists
    /\ DOMAIN tbl.types = ColumnSet(CsvColumns(table_name))
    /\ \A c \in DOMAIN tbl.types : tbl.types[c] = "TEXT"
    /\ tbl.rows = <<>>

\* in this step the table is left as it is, or gains every decoded row of
\* caller p, none left out, its columns as they were
AppendsAllOrNothing(p) ==
    LET table_name == procs[p].table
        df == procs[p].df
    IN  \/ tables' = tables /\ procs'[p].result # "Restored"
        \/ /\ procs'[p].result = "Restored"
           /\ tables'[table_name].exists
           /\ tables'[table_name].types = tables[table_name].types
           /\ tables'[table_name].rows = tables[table_name].rows \o
                 [i \in 1..Len(df) |-> StoredRow(tables[table_name], df[i])]
           /\ \A t \in TableNames \ {table_name} : tables'[t] = tables[t]

\* the step of caller p that looks at the destination table: a table that
\* exists is left as it is; a missing one is created, when the argument
\* allows it, with a text column per catalog column
InspectStep(p, creates) ==
    LET table_name == procs[p].table IN
    IF tables[table_name].exists
    THEN tables' = tables /\ procs'[p].pc = "tx"
    ELSE IF creates
    THEN /\ IsFreshTextTable(tables'[table_name], table_name)
         /\ \A t \in TableNames \ {table_name} : tables'[t] = tables[t]
         /\ procs'[p].pc = "tx"
    ELSE /\ tables' = tables
         /\ procs'[p].pc = "done"
         /\ procs'[p].result = "NoColumns"

\* C9: restore_table(T) with a non-empty snapshot: a destination table that
\* exists is neither recreated nor altered; a missing one is created with
\* exactly one text column per column of T's catalog entry when that entry
\* lists columns, and when it lists none the call ends there, nothing
\* created and nothing appended; then every decoded row is appended in one
\* transaction, all of them or none, no row left out by validation.
C9_CreateThenAppend ==
    [][\A p \in Procs :
          /\ (procs[p].pc = "inspect" /\ procs'[p] # procs[p]) =>
                InspectStep(p, CsvColumns(procs[p].table) # <<>>)
          /\ (procs[p].pc = "tx" /\ procs'[p] # procs[p]) =>
                AppendsAllOrNothing(p)]_vars

\* a restore that created the table and appended to it a row the Row
\* Validator rejects
C9_Witness ==
    \E p \in Procs :
        /\ procs[p].op = "restore"
        /\ procs[p].result = "Restored"
        /\ procs[p].created
        /\ IsFreshTextTable([tables[procs[p].table] EXCEPT !.rows = <<>>],
                            procs[p].table)
        /\ \E i \in 1..Len(tables[procs[p].table].rows) :
              validate_row(tables[procs[p].table].rows[i],
                           CsvColumns(procs[p].table)) # <<>>

\* C9 as stated: a missing destination table is always created before the
\* rows are appended
C9_AlwaysCreates ==
    [][\A p \in Procs :
          /\ (procs[p].pc = "inspect" /\ procs'[p] # procs[p]) =>
                InspectStep(p, TRUE)
          /\ (procs[p].pc = "tx" /\ procs'[p] # procs[p]) =>
                AppendsAllOrNothing(p)]_vars

\* C10: when a backup_table(T) call has completed, backup.files[T] is the
\* path of T's snapshot, whatever other backups did in between: no pointer
\* is lost to another backup's rewrite of the configuration.
C10_NoLostPointer ==
    \A p \in Procs :
        (procs[p].op = "backup" /\ procs[p].result = "BackedUp") =>
            /\ procs[p].table \in DOMAIN config.files
            /\ config.files[procs[p].table] = BackupFile(procs[p].table)

(***************************************************************************)
(* restore_endpoint without table parameter (src/api/main.py): the sweep   *)
(* over the tables of the catalog.  "call" holds the request: the number   *)
(* of restore_table calls that have returned, their outcomes, the          *)
(* response.  Caller p1 runs the restore_table calls of the sweep.         *)
(***************************************************************************)
\* list(config.get("csv", {}).keys())
CatalogOrder == <<"hired_employees", "departments", "jobs">>

SweepIdle == [pc |-> "idle", i |-> 0, outcomes |-> <<>>, response |-> ""]

\* every outcome of restore_table aborts the sweep
RaisesOrReports(result) == result # "Restored"

\* whether restore_table ended by raising: NoBackupFound, EmptyBackup and
\* NoColumns are logged and returned from
Raises(result) ==
    result \in {"DataError", "StorageFailure", "ValueError", "ProgrammingError"}

\* lines 141-148: the request arrives, no table given
restore_endpoint ==
    /\ call = SweepIdle
    /\ call' = [SweepIdle EXCEPT !.pc = "loop"]
    /\ UNCHANGED <<tables, logFiles, clock>>
    /\ UNCHANGED <<rowVars, backupVars>>

\* lines 149-151: the next table of the catalog is restored
sweep_calls ==
    /\ call.pc = "loop"
    /\ call.i < Len(CatalogOrder)
    /\ nops = call.i
    /\ restore_table("p1", CatalogOrder[call.i + 1])

\* restore_table returns into the loop, or raises out of it (lines 153-155)
sweep_returns ==
    /\ call.pc = "loop"
    /\ nops = call.i + 1
    /\ procs["p1"].pc = "done"
    /\ LET outcome == [table |-> procs["p1"].table, result |-> procs["p1"].result]
           seen == [call EXCEPT !.i = @ + 1, !.outcomes = Append(@, outcome)]
       IN  IF Raises(procs["p1"].result)
           THEN call' = [seen EXCEPT !.pc = "done", !.response = "500"]
           ELSE call' = seen
    /\ UNCHANGED <<tables, logFiles, clock>>
    /\ UNCHANGED <<rowVars, backupVars>>

\* line 152: every table done
sweep_completes ==
    /\ call.pc = "loop"
    /\ call.i = Len(CatalogOrder)
    /\ call' = [call EXCEPT !.pc = "done", !.response = "200"]
    /\ UNCHANGED <<tables, logFiles, clock>>
    /\ UNCHANGED <<rowVars, backupVars>>

\* what a table and its backup can be when the sweep begins: the table
\* with rows or emptied; no pointer or a pointer; no file at the path, the
\* snapshot of the empty table, or the snapshot of the table with rows
InitialJobs ==
    [exists |-> TRUE, types |-> [id |-> "BIGINT", job |-> "TEXT"],
     rows |-> <<[id |-> IntV("1"), job |-> StrV(<<"a">>)]>>]

SweepSource(table_name) ==
    CASE table_name = "hired_employees" ->
            [exists |-> TRUE, types |-> HiredTypesWithMissing, rows |-> <<full, partial>>]
      [] table_name = "departments" -> InitialDepartments
      [] OTHER -> InitialJobs

InitSweep ==
    /\ RowIdle
    /\ call = SweepIdle
    /\ logFiles = <<>>
    /\ clock = 0
    /\ \E c \in [{CatalogOrder[i] : i \in 1..Len(CatalogOrder)} ->
                    [empty : BOOLEAN, pointer : BOOLEAN, file : {"none", "empty", "rows"}]] :
          LET backed == {t \in DOMAIN c : c[t].pointer}
              written == {t \in DOMAIN c : c[t].file # "none"}
          IN  /\ tables = [t \in TableNames |->
                             IF t \notin DOMAIN c THEN NoTable
                             ELSE IF c[t].empty
                             THEN [SweepSource(t) EXCEPT !.rows = <<>>]
                             ELSE SweepSource(t)]
              /\ config = [files |-> [t \in backed |-> BackupFile(t)]]
              /\ snapshots =
                    [path \in {BackupFile(t) : t \in written} |->
                        LET t == CHOOSE u \in written : BackupFile(u) = path IN
                        IF c[t].file = "empty"
                        THEN WrittenFile([SweepSource(t) EXCEPT !.rows = <<>>])
                        ELSE WrittenFile(SweepSource(t))]
    /\ procs = [p \in Procs |-> IdleProc]
    /\ nops = 0

NextSweep ==
    \/ restore_endpoint
    \/ sweep_calls
    \/ read_snapshot("p1")
    \/ inspect_table("p1")
    \/ to_sql_raises("p1")
    \/ to_sql_commits("p1")
    \/ sweep_returns
    \/ sweep_completes

SpecSweep == InitSweep /\ [][NextSweep]_vars /\ WF_vars(NextSweep)

\* the tables of the outcomes the sweep has seen, in the order seen
Attempted == [k \in 1..Len(call.outcomes) |-> call.outcomes[k].table]

\* the sweep has ended because a restore_table call raised
AbortedByRaise ==
    /\ call.response = "500"
    /\ call.outcomes # <<>>
    /\ call.outcomes[Len(call.outcomes)].result \notin
          {"NoBackupFound", "EmptyBackup", "Restored"}

\* C11: in the restore sweep a NoBackupFound or EmptyBackup outcome does not
\* abort the sweep: the tables are attempted in catalog order, the sweep ends
\* early only when a restore raises, and otherwise it comes to its end with
\* every table of the catalog attempted and a successful response.
C11_SweepContinues ==
    /\ [](Attempted = SubSeq(CatalogOrder, 1, Len(call.outcomes)))
    /\ [](call.pc = "done" =>
            \/ AbortedByRaise
            \/ call.response = "200" /\ Attempted = CatalogOrder)
    /\ <>(call.pc = "done")

\* a sweep that ended successfully after a NoBackupFound for the first table,
\* an EmptyBackup for the second and a restore of the third
C11_Witness ==
    /\ call.pc = "done"
    /\ call.response = "200"
    /\ call.outcomes[1].result = "NoBackupFound"
    /\ call.outcomes[2].result = "EmptyBackup"
    /\ call.outcomes[3].result = "Restored"

(***************************************************************************)
(* validate_dataframe called twice (src/data/validator.py).  "call" holds  *)
(* the latest call: its batch, its quarantine entries, the accepted        *)
(* sub-batch it returned; prev_valid is the sub-batch the call before it   *)
(* returned, and quarantined is a history field, the entries written to    *)
(* log files so far, call by call.                                         *)
(***************************************************************************)
ValidateIdle ==
    [pc |-> "start", df |-> <<>>, table_name |-> "", process_type |-> "",
     error_log |-> <<>>, df_valid |-> <<>>, prev_valid |-> <<>>,
     quarantined |-> <<>>, result |-> ""]

\* batches of at most two records, and the batch of five
SmallBatches ==
    {<<>>} \cup {<<r>> : r \in RowPool}
           \cup {<<r1, r2>> : r1 \in RowPool, r2 \in RowPool}
           \cup {ScenarioBatch}

AfterCall(pc) == IF pc = "start" THEN "once" ELSE "twice"

\* lines 30-65: the rows are scanned, the quarantine entries, if any, are
\* written to the log file named after the label, the table and the time,
\* opened with mode "w"; the accepted sub-batch is returned
validate_dataframe(df, table_name, process_type) ==
    /\ call.pc \in {"start", "once"}
    /\ LET r == ScanRows(df, HiredColumns, table_name, 1)
           log_file == LogFileName(process_type, table_name, clock)
       IN  /\ logFiles' = IF r.error_log # <<>>
                          THEN (log_file :> r.error_log) @@ logFiles
                          ELSE logFiles
           /\ call' = [call EXCEPT
                 !.pc = AfterCall(call.pc), !.df = df,
                 !.table_name = table_name, !.process_type = process_type,
                 !.error_log = r.error_log,
                 !.df_valid = Loc(df, r.valid_indices),
                 !.prev_valid = call.df_valid,
                 !.quarantined = IF r.error_log # <<>>
                                 THEN Append(@, r.error_log) ELSE @,
                 !.result = "Returned"]
    /\ UNCHANGED <<tables, clock>>
    /\ UNCHANGED <<rowVars, backupVars>>

\* lines 55-63 raise (makedirs, open or dump): no file, nothing returned
validate_dataframe_raises(df, table_name, process_type) ==
    /\ call.pc \in {"start", "once"}
    /\ LET r == ScanRows(df, HiredColumns, table_name, 1)
       IN  /\ r.error_log # <<>>
           /\ call' = [call EXCEPT
                 !.pc = AfterCall(call.pc), !.df = df,
                 !.table_name = table_name, !.process_type = process_type,
                 !.error_log = r.error_log,
                 !.df_valid = <<>>,
                 !.prev_valid = call.df_valid,
                 !.result = "OSError"]
    /\ UNCHANGED <<tables, logFiles, clock>>
    /\ UNCHANGED <<rowVars, backupVars>>

InitValidate ==
    /\ RowIdle
    /\ tables = [t \in TableNames |-> NoTable]
    /\ logFiles = <<>>
    /\ clock = 0
    /\ call = ValidateIdle
    /\ BackupIdle

NextValidate ==
    \/ \E df \in SmallBatches, process_type \in ProcessTypes :
          validate_dataframe(df, "hired_employees", process_type)
    \/ \E process_type \in ProcessTypes :
          validate_dataframe(call.df_valid, "hired_employees", process_type)
    \/ \E df \in SmallBatches, process_type \in ProcessTypes :
          validate_dataframe_raises(df, "hired_employees", process_type)
    \/ Tick /\ UNCHANGED <<rowVars, backupVars>>

SpecValidate == InitValidate /\ [][NextValidate]_vars

\* C12: validate_dataframe applied to the accepted sub-batch that a call of
\* validate_dataframe returned gives that same sub-batch back, same rows in
\* the same order, with no quarantine entry and no quarantine log file.
C12_Idempotent ==
    [][(call.pc = "once" /\ call'.pc = "twice" /\ call'.df = call.df_valid
            /\ call.result = "Returned") =>
           /\ call'.df_valid = call.df_valid
           /\ call'.error_log = <<>>
           /\ call'.result = "Returned"
           /\ logFiles' = logFiles]_vars

\* a second call on the sub-batch of several records that a first call,
\* which quarantined some record, returned
C12_Witness ==
    /\ call.pc = "twice"
    /\ call.df = call.prev_valid
    /\ Len(call.df) > 1
    /\ call.df[1] # call.df[2]
    /\ call.quarantined # <<>>
    /\ call.df_valid = call.df

\* C16: quarantine entries are never lost: after any sequence of
\* validate_dataframe calls, the entries every call wrote are still in some
\* log file, also after two calls with the same label and table name.
C16_NeverLost ==
    \A k \in 1..Len(call.quarantined) :
        \E f \in DOMAIN logFiles :
            \A i \in 1..Len(call.quarantined[k]) :
                call.quarantined[k][i] \in Range(logFiles[f])

(***************************************************************************)
(* ingest_data (src/api/main.py) and Migration.migrate_data                *)
(* (src/data/migration.py).  "call" holds the request: the three batches,  *)
(* the csv section of the configuration as the request reads it, the       *)
(* tables as the open transaction sees them, the response.                 *)
(***************************************************************************)
IngestTables == <<"hired_employees", "departments", "jobs">>

\* the fields of the request models, in the order of model_dump
ModelFields(table_name) ==
    CASE table_name = "hired_employees" -> HiredColumns
      [] table_name = "departments" -> <<"id", "department">>
      [] OTHER -> <<"id", "job">>

\* a record the request model accepts although its name is whitespace
blankName == Hired("6", <<" ">>, <<"2021-07-15", "T", "10:00", ":30", "Z">>)

Department(id, department) == [id |-> IntV(id), department |-> StrV(department)]
Job(id, job) == [id |-> IntV(id), job |-> StrV(job)]

\* the requests: every list has at least one record (min_items=1), every
\* record has passed the request models (datetime parses, any string is a
\* name)
Requests ==
    [hired_employees : {<<good1>>, <<blankName>>, <<good1, blankName>>},
     departments : {<<Department("1", <<"a">>)>>, <<Department("2", <<>>)>>},
     jobs : {<<Job("1", <<"a">>)>>}]

\* config["csv"][table]["columns"] as a configuration file can have it: the
\* fields of the models; the same in another order; a column missing; a
\* column more
CsvSections ==
    {[t \in {"hired_employees", "departments", "jobs"} |-> CsvColumns(t)],
     [hired_employees |-> <<"job_id", "department_id", "datetime", "name", "id">>,
      departments |-> <<"department", "id">>, jobs |-> <<"job", "id">>],
     [hired_employees |-> HiredColumns, departments |-> <<"id">>,
      jobs |-> <<"id", "job">>],
     [hired_employees |-> HiredColumns, departments |-> <<"id", "department">>,
      jobs |-> <<"id", "job", "level">>]}

IngestIdle ==
    [pc |-> "idle", data |-> <<>>, csv |-> <<>>, done |-> 0, begun |-> 0,
     pending |-> <<>>, before |-> <<>>, response |-> ""]

\* the comparison of the columns as lists, order included
SameColumnsInOrder(columns, expected_columns) == columns = expected_columns

\* lines 79-80: set(df.columns) != set(get_expected_columns(table))
SameColumns(columns, expected_columns) ==
    {columns[i] : i \in 1..Len(columns)} =
        {expected_columns[i] : i \in 1..Len(expected_columns)}

\* lines 72-77: the request arrives, the three frames are built
ingest_data(data, csv) ==
    /\ call = IngestIdle
    /\ call' = [IngestIdle EXCEPT !.pc = "check", !.data = data, !.csv = csv,
                                  !.before = tables]
    /\ UNCHANGED <<tables, logFiles, clock>>
    /\ UNCHANGED <<rowVars, backupVars>>

\* lines 79-92: the columns of each frame against the catalog; the
\* HTTPException(400) of a mismatch is caught at line 101 and becomes a 500;
\* line 94: engine.begin()
check_columns ==
    /\ call.pc = "check"
    /\ IF \A i \in 1..Len(IngestTables) :
             SameColumns(ModelFields(IngestTables[i]), call.csv[IngestTables[i]])
       THEN call' = [call EXCEPT !.pc = "tx", !.begun = @ + 1, !.pending = tables]
       ELSE call' = [call EXCEPT !.pc = "done", !.response = "500"]
    /\ UNCHANGED <<tables, logFiles, clock>>
    /\ UNCHANGED <<rowVars, backupVars>>

\* lines 95-97: the next frame is appended inside the transaction
ingest_to_sql ==
    /\ call.pc = "tx"
    /\ call.done < Len(IngestTables)
    /\ LET table_name == IngestTables[call.done + 1]
           df == call.data[table_name]
           target == AppendTarget(call.pending[table_name], df)
       IN  /\ \A i \in 1..Len(df) : RowFits(target, df[i])
           /\ call' = [call EXCEPT
                 !.done = @ + 1,
                 !.pending[table_name] =
                     [target EXCEPT !.rows =
                         @ \o [i \in 1..Len(df) |-> StoredRow(target, df[i])]]]
    /\ UNCHANGED <<tables, logFiles, clock>>
    /\ UNCHANGED <<rowVars, backupVars>>

\* what a rolled back transaction leaves when its first append stays
IngestRolledBackKeepsFirst(before, pending) ==
    [before EXCEPT !["hired_employees"] = pending["hired_employees"]]

\* what a rolled back transaction leaves: the tables as they were
IngestRolledBack(before, pending) == before

\* lines 94-104: an append or the commit raises; the transaction is rolled
\* back, the response is a 500
ingest_fails ==
    /\ call.pc = "tx"
    /\ tables' = IngestRolledBack(tables, call.pending)
    /\ call' = [call EXCEPT !.pc = "done", !.response = "500"]
    /\ UNCHANGED <<logFiles, clock>>
    /\ UNCHANGED <<rowVars, backupVars>>

\* lines 97-100: the transaction commits, the response is the success message
ingest_commits ==
    /\ call.pc = "tx"
    /\ call.done = Len(IngestTables)
    /\ tables' = call.pending
    /\ call' = [call EXCEPT !.pc = "done", !.response = "200"]
    /\ UNCHANGED <<logFiles, clock>>
    /\ UNCHANGED <<rowVars, backupVars>>

\* the table to_sql(if_exists="replace") leaves: dropped, created from the
\* frame, the rows of the frame
ReplacedTable(df) ==
    LET target == AppendTarget(NoTable, df)
    IN  [target EXCEPT !.rows = [i \in 1..Len(df) |-> StoredRow(target, df[i])]]

\* a row of hired_employees.csv with no name and no department
csvNoName ==
    [id |-> IntV("7"), name |-> Null, datetime |-> StrV(<<"2021-07-15">>),
     department_id |-> Null, job_id |-> IntV("1")]

\* the files of the bulk import, as pd.read_csv reads them
CsvFiles ==
    [hired_employees : {<<good1>>, <<good1, csvNoName>>},
     departments : {<<Department("1", <<"a">>)>>},
     jobs : {<<Job("1", <<"a">>)>>}]

\* migration.py lines 73-75: the three files are read
migrate_data(files) ==
    /\ call = IngestIdle
    /\ call' = [IngestIdle EXCEPT !.pc = "migrate", !.data = files,
                                  !.before = tables]
    /\ UNCHANGED <<tables, logFiles, clock>>
    /\ UNCHANGED <<rowVars, backupVars>>

\* migration.py lines 78-80: the next table is replaced by its file, each
\* to_sql on the engine a transaction of its own
migrate_to_sql ==
    /\ call.pc = "migrate"
    /\ call.done < Len(IngestTables)
    /\ LET table_name == IngestTables[call.done + 1]
       IN  tables' = [tables EXCEPT ![table_name] = ReplacedTable(call.data[table_name])]
    /\ call' = [call EXCEPT !.done = @ + 1,
                            !.pc = IF call.done + 1 = Len(IngestTables)
                                   THEN "done" ELSE @,
                            !.response = IF call.done + 1 = Len(IngestTables)
                                         THEN "migrated" ELSE @]
    /\ UNCHANGED <<logFiles, clock>>
    /\ UNCHANGED <<rowVars, backupVars>>

\* migration.py lines 82-84: a to_sql raises; the tables replaced so far stay
migrate_fails ==
    /\ call.pc = "migrate"
    /\ call' = [call EXCEPT !.pc = "done", !.response = "raised"]
    /\ UNCHANGED <<tables, logFiles, clock>>
    /\ UNCHANGED <<rowVars, backupVars>>

\* the store before the request: no table yet, or the three tables with a
\* row each
InitialStore ==
    {[t \in TableNames |-> NoTable],
     [t \in TableNames |->
        CASE t = "hired_employees" ->
                [exists |-> TRUE, types |-> HiredTypes, rows |-> <<good3>>]
          [] t = "departments" -> InitialDepartments
          [] t = "jobs" -> InitialJobs
          [] OTHER -> NoTable]}

InitIngest ==
    /\ RowIdle
    /\ tables \in InitialStore
    /\ logFiles = <<>>
    /\ clock = 0
    /\ call = IngestIdle
    /\ BackupIdle

NextIngest ==
    \/ \E data \in Requests, csv \in CsvSections : ingest_data(data, csv)
    \/ check_columns
    \/ ingest_to_sql
    \/ ingest_fails
    \/ ingest_commits
    \/ \E files \in CsvFiles : migrate_data(files)
    \/ migrate_to_sql
    \/ migrate_fails

SpecIngest == InitIngest /\ [][NextIngest]_vars

\* C13: every row that ingest_data or Migration.migrate_data writes to the
\* store has passed the Batch Validator: validate_row finds no defect in any
\* row of the three tables, and no record with a blank expected field is
\* persisted.
C13_OnlyValidatedRows ==
    \A n \in 1..Len(IngestTables) :
        LET table_name == IngestTables[n] IN
        \A k \in 1..Len(tables[table_name].rows) :
            validate_row(tables[table_name].rows[k], CsvColumns(table_name)) = <<>>

\* the request's csv section differs, as a set of columns, from the columns
\* of some submitted batch
HasMismatch ==
    \E n \in 1..Len(IngestTables) :
        ColumnSet(ModelFields(IngestTables[n])) # ColumnSet(call.csv[IngestTables[n]])

\* C14: in ingest_data a batch whose column set differs from the catalog's
\* for its table makes the whole request fail before any transaction is
\* opened, no row of any batch written; with equal column sets, whatever the
\* order of the columns, the request goes on to its transaction.
C14_SchemaMismatch ==
    /\ [][(call.pc = "check" /\ call' # call) =>
            IF HasMismatch
            THEN /\ call'.pc = "done"
                 /\ call'.response = "500"
                 /\ call'.begun = 0
                 /\ tables' = tables
            ELSE call'.pc = "tx"]_vars
    /\ []((call.pc = "done" /\ call.response = "500" /\ HasMismatch) =>
            (call.begun = 0 /\ tables = call.before))

\* a request rejected for a column the catalog lacks, the tables holding
\* rows, none of them new
C14_Witness ==
    /\ call.pc = "done"
    /\ call.response = "500"
    /\ HasMismatch
    /\ call.csv["hired_employees"] = HiredColumns
    /\ tables["hired_employees"].rows # <<>>
    /\ tables = call.before

\* the rows of the table as they are after the batch is appended to what the
\* table held before
WithBatch(before, after, df) ==
    after.rows = before.rows \o [i \in 1..Len(df) |-> StoredRow(after, df[i])]

\* C17: ingest_data appends its three batches in one transaction: no row is
\* in the store while the transaction is open, after a failed request none
\* of the three tables holds a row of the request, and after a successful
\* one each of the three tables holds what it held plus all its rows.
C17_OneTransaction ==
    /\ call.pc \in {"check", "tx"} => tables = call.before
    /\ (call.pc = "done" /\ call.response = "500") => tables = call.before
    /\ (call.pc = "done" /\ call.response = "200") =>
          /\ call.begun = 1
          /\ \A n \in 1..Len(IngestTables) :
                LET table_name == IngestTables[n] IN
                /\ tables[table_name].exists
                /\ WithBatch(call.before[table_name], tables[table_name],
                             call.data[table_name])
          /\ tables["other"] = call.before["other"]

\* a request that failed after its three appends, the tables as before
C17_Witness ==
    /\ call.pc = "done"
    /\ call.response = "500"
    /\ call.begun = 1
    /\ call.done = Len(IngestTables)
    /\ call.pending # call.before
    /\ tables = call.before

(***************************************************************************)
(* backup_table with crashes: the process of a call dies at any step.      *)
(***************************************************************************)
\* the call of caller p dies: before or during the write of the file (lines
\* 94-95: a file opened with "wb" and not written is left empty), between
\* the write and the update of the configuration, or before or during the
\* rewrite of the configuration (lines 59-60: a file opened with "w" and not
\* written is left empty, no pointer in it)
Crash(p) ==
    /\ procs[p].op = "backup"
    /\ procs[p].pc \in {"write", "load_config", "dump_config"}
    /\ procs' = Finished(p, "Crashed")
    /\ \/ UNCHANGED <<config, snapshots>>
       \/ /\ procs[p].pc = "write"
          /\ snapshots' = (BackupFile(procs[p].table) :> EmptyFile) @@ snapshots
          /\ UNCHANGED config
       \/ /\ procs[p].pc = "dump_config"
          /\ config' = [files |-> <<>>]
          /\ UNCHANGED snapshots
    /\ UNCHANGED nops
    /\ UNCHANGED <<rowVars, pipeVars>>

\* no backup has been taken yet
InitCrash ==
    /\ InitBackup
    /\ config = [files |-> <<>>]

NextCrash ==
    \E p \in Procs :
        \/ \E t \in BackupTables : backup_table(p, t)
        \/ write_snapshot(p)
        \/ load_config(p)
        \/ dump_config(p)
        \/ Crash(p)

SpecCrash == InitCrash /\ [][NextCrash]_vars

\* C15: backup_table writes the file before it records the pointer: in every
\* state, crashes included, a pointer backup.files[T] names the path of T's
\* file and a file is at that path; after a crash between the write and the
\* pointer update the file is there, with no pointer for T or with the
\* pointer of an earlier backup to the same path.
C15_PointerHasFile ==
    /\ \A t \in DOMAIN config.files :
          /\ config.files[t] = BackupFile(t)
          /\ config.files[t] \in DOMAIN snapshots
    /\ \A p \in Procs :
          (procs[p].result = "Crashed" /\ procs[p].path # <<>>) =>
              /\ BackupFile(procs[p].table) \in DOMAIN snapshots
              /\ \/ procs[p].table \notin DOMAIN config.files
                 \/ config.files[procs[p].table] = BackupFile(procs[p].table)

\* a first backup that crashed between the write of the file and the update
\* of the configuration: the file, and no pointer to it
C15_Witness ==
    \E p \in Procs :
        /\ procs[p].result = "Crashed"
        /\ procs[p].path # <<>>
        /\ procs[p].path \in DOMAIN snapshots
        /\ snapshots[procs[p].path].valid
        /\ procs[p].table \notin DOMAIN config.files
        /\ config.files # <<>>

\* the sequence repeated k times
RECURSIVE Copies(_, _)
Copies(k, seq) == IF k = 0 THEN <<>> ELSE Copies(k - 1, seq) \o seq

\* the first sequence begins the second
IsPrefix(s, t) == Len(s) <= Len(t) /\ SubSeq(t, 1, Len(s)) = s

\* the decoded rows of caller p as the table stores them
StoredSnapshot(p) ==
    [i \in 1..Len(procs[p].df) |->
        StoredRow(tables[procs[p].table], procs[p].df[i])]

\* C18: restore_table only appends: no step of a call deletes or changes a
\* row that is in a table, a successful restore leaves the rows the table
\* had followed by every row of the snapshot, and a table that holds k
\* copies of the snapshot holds k + 1 after one more restore, so k restores
\* into an empty table leave every snapshot row k times.
C18_OnlyAppends ==
    [][\A p \in Procs :
          (procs'[p] # procs[p] /\ procs'[p].op = "restore") =>
              /\ \A t \in TableNames :
                    tables[t].exists =>
                        /\ tables'[t].exists
                        /\ tables'[t].types = tables[t].types
                        /\ IsPrefix(tables[t].rows, tables'[t].rows)
              /\ procs'[p].result = "Restored" =>
                    LET t == procs[p].table IN
                    /\ BagOf(tables'[t].rows) =
                          BagOf(tables[t].rows \o StoredSnapshot(p))
                    /\ \A k \in 0..MaxOps :
                          tables[t].rows = Copies(k, StoredSnapshot(p)) =>
                              tables'[t].rows = Copies(k + 1, StoredSnapshot(p))]_vars

\* a table emptied after its backup and restored twice: every row of the
\* snapshot is in it twice
C18_Witness ==
    \E p \in Procs :
        /\ procs[p].op = "restore"
        /\ procs[p].result = "Restored"
        /\ procs[p].df # <<>>
        /\ procs[p].before.rows = StoredSnapshot(p)
        /\ tables[procs[p].table].rows = Copies(2, StoredSnapshot(p))

====
